---------------------------- MODULE Spec2Model ----------------------------
(***************************************************************************)
(* Model of sim/simulate.py: the parameter sweep of main(), the rounds of  *)
(* run_once() and the Miner decision records.                             *)
(*                                                                         *)
(* The source computes with floats.  The model carries every real as an   *)
(* integer in a fixed unit, rounding down where the source divides:       *)
(*   money            1 unit = 10^4 satoshi                                *)
(*   block size       1 unit = 1000 vB                                     *)
(*   fee rate         1 unit = 1/100 sat/vB                                *)
(*   utilization      1 unit = 1/US                                        *)
(*   probabilities    1 unit = 1/QS                                        *)
(*   shares           1 unit = 1/SS                                        *)
(*   profits          1 unit = 1/(SS*QS) money units (exact products)      *)
(*   times            milliseconds;  rate lambda in 10^-5 per second       *)
(***************************************************************************)
EXTENDS Integers, Sequences, FiniteSets, TLC

\* ------------------------------------------------------------------ bounds
\* Largest round count T of a run.
MaxT == 3
\* Largest number of records of the block feed.
MaxFeed == 2

\* ------------------------------------------------------------------- units
US == 10000
QS == 1000
SS == 10
\* Unit of alpha.
AS == 1000
\* Unit of the congestion ratio U_t / U_star.
CS == 1000
\* Unit of G_ratio.
GRS == 10000
\* Unit of the discount factor gamma.
GS == 100
\* Unit of ratio_i.
RS == 10000
\* Unit of a profit: one money unit is PS profit units.
PS == SS * QS

\* ----------------------------------------------------------- program constants
BLOCKS_PER_DAY == 144
\* 100_000_000 satoshi per BTC, in money units.
SAT_PER_BTC == 10000
\* The upper limit of the base fee (1e15 in the source, far above every fee
\* rate of a feed); in the model's fee-rate unit it is kept above every fee
\* rate of the modelled feeds.
BASEFEE_CAP == 40000
\* The floor 1e-12 of the two denominators of the deviation margin: the
\* smallest positive value of the unit it is compared in.
EPS == 1
\* actual_miner_id of a record whose miner_id is NaN.
NO_MINER == -1

Min(a, b) == IF a <= b THEN a ELSE b
Max(a, b) == IF a >= b THEN a ELSE b

RECURSIVE SumSeq(_)
SumSeq(s) == IF s = <<>> THEN 0 ELSE Head(s) + SumSeq(Tail(s))

\* ---------------------------------------------------------------- np.exp
\* exp(x) for x >= 0 in units of 1/QS, by its power series (8 terms).
RECURSIVE ExpTerms(_, _, _)
ExpTerms(x, term, n) ==
    IF n > 8 \/ term = 0 THEN 0
    ELSE term + ExpTerms(x, (term * x) \div (QS * n), n + 1)

ExpPos(x) == ExpTerms(x, QS, 1)

\* exp(-x) = 1 / exp(x), in units of 1/QS.
ExpNeg(x) == (QS * QS) \div ExpPos(x)

\* floor(sqrt(n)), for np.std.
RECURSIVE SqrtIter(_, _, _)
SqrtIter(n, lo, hi) ==
    IF lo >= hi THEN lo
    ELSE LET mid == (lo + hi + 1) \div 2
         IN  IF mid * mid <= n THEN SqrtIter(n, mid, hi)
             ELSE SqrtIter(n, lo, mid - 1)

Sqrt(n) == SqrtIter(n, 0, Min(n, 46340))


\* ------------------------------------------------------------------ inputs
\* A missing value of the miner_id column.
NaN == -1000

\* Block records of the feed (rows of consolidated_block_data.csv).
RecLow ==
    [avg_sat_per_vb |-> 300, mev_sat |-> 100, block_subsidy_sat |-> 31250,
     total_vbytes |-> 250, date |-> "d1", miner_id |-> 1, btc_usd |-> 60]
RecHigh ==
    [avg_sat_per_vb |-> 2000, mev_sat |-> 0, block_subsidy_sat |-> 31250,
     total_vbytes |-> 2000, date |-> "d2", miner_id |-> 2, btc_usd |-> 50]
RecTarget ==
    [avg_sat_per_vb |-> 0, mev_sat |-> 0, block_subsidy_sat |-> 62500,
     total_vbytes |-> 750, date |-> "d1", miner_id |-> NaN, btc_usd |-> 60]
RecFull ==
    [avg_sat_per_vb |-> 1000, mev_sat |-> 500, block_subsidy_sat |-> 31250,
     total_vbytes |-> 1000, date |-> "d3", miner_id |-> 1, btc_usd |-> 60]

BlockRecords == {RecLow, RecHigh, RecTarget, RecFull}

\* The columns of the feed: required_cols and the additional columns main()
\* keeps when the file has them.
required_cols ==
    {"total_vbytes", "avg_sat_per_vb", "mev_sat", "date", "block_subsidy_sat"}
additional_cols == {"height", "btc_usd", "miner_id"}
FeedColumns == required_cols \cup additional_cols

\* The columns of pool_daily_cost.csv that main() and run_once read.
PoolColumns == {"date", "miner_id", "pool_name", "daily_share", "cost_usd_per_day"}

\* The feeds: every non-empty sequence of at most MaxFeed block records.
Feeds == UNION {[1..n -> BlockRecords] : n \in 1..MaxFeed}

\* The selected miners with the rows of pool_daily_cost.csv that belong to them.
CostRow(d, m, c) == [date |-> d, miner_id |-> m, cost_usd_per_day |-> c]

PoolSingle ==
    [miner_ids |-> <<1>>, shares |-> <<10>>,
     daily_costs |-> <<CostRow("d1", 1, 0)>>]
PoolPair ==
    [miner_ids |-> <<1, 2>>, shares |-> <<6, 4>>,
     daily_costs |-> <<CostRow("d1", 1, 1500), CostRow("d1", 2, 1500)>>]
PoolUneven ==
    [miner_ids |-> <<1, 2>>, shares |-> <<6, 4>>,
     daily_costs |-> <<CostRow("d1", 1, 1500), CostRow("d2", 1, 3000),
                       CostRow("d1", 2, 800)>>]

Pools == {PoolSingle, PoolPair, PoolUneven}

\* pool_daily_cost.csv with its header and no row.
PoolEmpty == [miner_ids |-> <<>>, shares |-> <<>>, daily_costs |-> <<>>]

\* Configurations (the keys of the yaml file main() reads).
CfgBase ==
    [base_delay_ms |-> 100, kappa_ms_per_MB |-> 80, gamma |-> 99,
     lambda_block_rate |-> 10000, w_seconds |-> 1000, basefee0 |-> 100,
     alpha |-> 125, U_star |-> 7500, delta_step |-> 5,
     B_min_vB |-> 1000, B_max_vB |-> 2000,
     G_ratio_grid |-> <<0, 1000>>, fee_floor_grid |-> <<5000>>,
     include_block_reward |-> FALSE]
CfgNoPenalty ==
    [CfgBase EXCEPT !.w_seconds = 0, !.include_block_reward = TRUE,
                    !.G_ratio_grid = <<0, 50>>]
CfgSteep ==
    [CfgBase EXCEPT !.alpha = 2000, !.basefee0 = 39000, !.B_max_vB = 1100,
                    !.G_ratio_grid = <<1000, 1000>>]
CfgSlowBlocks ==
    [CfgBase EXCEPT !.lambda_block_rate = 167, !.include_block_reward = TRUE,
                    !.G_ratio_grid = <<10, 50>>, !.delta_step = 50,
                    !.basefee0 = 0]
CfgCapped ==
    [CfgBase EXCEPT !.basefee0 = 40000, !.U_star = 8000, !.B_max_vB = 1000,
                    !.fee_floor_grid = <<0>>]
CfgTwoFloors ==
    [CfgBase EXCEPT !.G_ratio_grid = <<1000>>, !.fee_floor_grid = <<0, 5000>>]
\* Slow blocks and a long latency penalty: rho_honest is 0 and rho_dev is one
\* half, so that ratio_i is 1; the target utilization is 1.0.
CfgMarginal ==
    [CfgBase EXCEPT !.lambda_block_rate = 167, !.w_seconds = 414900,
                    !.U_star = 10000, !.G_ratio_grid = <<10000>>,
                    !.fee_floor_grid = <<0>>]
\* A capacity step of one half.
CfgWideStep ==
    [CfgBase EXCEPT !.delta_step = 50, !.G_ratio_grid = <<1000>>]

Configs ==
    {[c EXCEPT !.T = n] :
        c \in {[T |-> 0] @@ k :
                  k \in {CfgBase, CfgNoPenalty, CfgSteep, CfgSlowBlocks, CfgCapped,
                         CfgTwoFloors, CfgMarginal, CfgWideStep}},
        n \in 0..MaxT}

\* A yaml file without one of its keys.
Without(c, key) == [k \in DOMAIN c \ {key} |-> c[k]]

\* The default configuration at every number of rounds.
BaseConfigs == {[T |-> n] @@ CfgBase : n \in 0..MaxT}

\* The files main() reads: every configuration with every pool and complete
\* files, and the default configuration with one defect in one file.
InputCase(c, pool, cols, pool_cols) ==
    [cfg |-> c, pool |-> pool, columns |-> cols, cost_columns |-> pool_cols]

InputCases ==
    {InputCase(c, pool, FeedColumns, PoolColumns) : c \in Configs, pool \in Pools}
    \cup {InputCase(c, PoolPair, FeedColumns \ {col}, PoolColumns) :
            c \in BaseConfigs,
            col \in {"height", "btc_usd", "miner_id", "mev_sat"}}
    \cup {InputCase(c, PoolPair, FeedColumns, PoolColumns \ {col}) :
            c \in BaseConfigs, col \in {"cost_usd_per_day", "date"}}
    \cup {InputCase(c, PoolEmpty, FeedColumns, PoolColumns) : c \in BaseConfigs}
    \cup {InputCase(Without(c, key), PoolPair, FeedColumns, PoolColumns) :
            c \in BaseConfigs, key \in {"G_ratio_grid", "fee_floor_grid"}}

\* ------------------------------------------------------------------ state
VARIABLES
    cfg, block_data, daily_costs, miner_ids, shares, costs,   \* inputs of main()
    columns,            \* the columns of the feed file
    cost_columns,       \* the columns of the cost table file
    state,              \* START, MINERS, RUN_DIR, BLOCKS, IDLE, RUNNING,
                        \* FINALIZED, DONE, ERROR
    out_dir,            \* the files of the run directory
    error,              \* the exception that ended main(), or "none"
    loop, run_count, rows, results_csv,                        \* the sweep
    args,               \* the arguments of the current run_once call
    cost_map, t, basefee, Bt_vB,
    deviates, actual_blocks_count, total_honest_blocks, total_dev_blocks,
    roi_numer, total_costs_accum, dt_list,
    history,            \* history[i]: the records of miners[i]
    Vi,                 \* Vi[i]: Vi_honest and Vi_dev of miners[i]
    rnd,                \* the locals of the last round
    result              \* the dict the last finished run returned

inputs == <<cfg, block_data, daily_costs, miner_ids, shares, costs,
            columns, cost_columns>>
outcome == <<out_dir, error>>
sweep == <<loop, run_count, rows, results_csv>>
run == <<args, cost_map, t, basefee, Bt_vB, deviates, actual_blocks_count,
         total_honest_blocks, total_dev_blocks, roi_numer, total_costs_accum,
         dt_list, history, Vi, rnd>>
vars == <<inputs, state, outcome, sweep, run, result>>

num_miners == Len(miner_ids)
Miners == 1..num_miners

\* ------------------------------------------------------------------ main()
\* mean of one column of the feed times its length (the model divides once).
RECURSIVE ColSum(_, _)
ColSum(feed, col) ==
    IF feed = <<>> THEN 0 ELSE Head(feed)[col] + ColSum(Tail(feed), col)

\* avg_btc_price / fallback_btc_price: the mean btc_usd of the feed.
MeanPrice(feed) == ColSum(feed, "btc_usd") \div Len(feed)

\* avg_costs.get(mid, 0): the mean cost_usd_per_day of the rows of miner mid.
AvgCostUsd(table, mid) ==
    LET idx == {k \in 1..Len(table) : table[k].miner_id = mid}
        RECURSIVE Sum(_)
        Sum(S) == IF S = {} THEN 0
                  ELSE LET k == CHOOSE k \in S : TRUE
                       IN  table[k].cost_usd_per_day + Sum(S \ {k})
    IN  IF idx = {} THEN 0 ELSE Sum(idx) \div Cardinality(idx)

\* cost in satoshi per block of a cost in USD per day at a BTC price.
CostSatPerBlock(cost_usd_per_day, btc_price) ==
    (cost_usd_per_day * SAT_PER_BTC) \div (BLOCKS_PER_DAY * btc_price)

\* costs: the run-start average cost of every selected miner.
InitialCosts(table, feed, ids) ==
    [i \in 1..Len(ids) |->
        CostSatPerBlock(AvgCostUsd(table, ids[i]), MeanPrice(feed))]

\* X_t_avg = mean(avg_sat_per_vb) * mean(total_vbytes) + mean(mev_sat).
XtAvg(feed) ==
    (ColSum(feed, "avg_sat_per_vb") * ColSum(feed, "total_vbytes"))
        \div (Len(feed) * Len(feed) * 1000)
    + ColSum(feed, "mev_sat") \div Len(feed)

\* G_norm = G_ratio * X_t_avg.
GNorm(G_ratio, feed) == (G_ratio * XtAvg(feed)) \div GRS

policy_groups ==
    << [name |-> "A_BF_FF_AD", basefee |-> TRUE,  feefloor |-> TRUE,  adaptive |-> TRUE],
       [name |-> "B_BF_AD",    basefee |-> TRUE,  feefloor |-> FALSE, adaptive |-> TRUE],
       [name |-> "C_BF_FF",    basefee |-> TRUE,  feefloor |-> TRUE,  adaptive |-> FALSE],
       [name |-> "D_BF",       basefee |-> TRUE,  feefloor |-> FALSE, adaptive |-> FALSE],
       [name |-> "E_FF_AD",    basefee |-> FALSE, feefloor |-> TRUE,  adaptive |-> TRUE],
       [name |-> "F_NONE",     basefee |-> FALSE, feefloor |-> FALSE, adaptive |-> FALSE] >>

\* ff_values taken from the grid for every policy group.
FFValuesAlwaysGrid(pg, c) == c.fee_floor_grid

\* ff_values = fee_floor_grid if pg["feefloor"] else [0].
FFValues(pg, c) == IF pg.feefloor THEN c.fee_floor_grid ELSE <<0>>

\* The position of the three nested loops of the sweep: the indices of the
\* next G_ratio, policy group and fee floor value.
FirstCombo == [g |-> 1, p |-> 1, f |-> 1]

\* The position at or after pos at which a run exists (a policy group whose
\* ff_values is empty runs nothing); g beyond the grid when the loops are over.
RECURSIVE Settle(_, _)
Settle(pos, c) ==
    IF pos.g > Len(c.G_ratio_grid) THEN pos
    ELSE IF pos.p > Len(policy_groups)
         THEN Settle([g |-> pos.g + 1, p |-> 1, f |-> 1], c)
    ELSE IF pos.f > Len(FFValues(policy_groups[pos.p], c))
         THEN Settle([g |-> pos.g, p |-> pos.p + 1, f |-> 1], c)
    ELSE pos

SweepOver(pos, c) == Settle(pos, c).g > Len(c.G_ratio_grid)

\* The keyword arguments of the run_once call at a position.
RunArgs(pos, c, feed) ==
    LET pg == policy_groups[pos.p]
    IN  [policy_group |-> pg.name,
         enable_basefee |-> pg.basefee,
         enable_feefloor |-> pg.feefloor,
         enable_adaptive |-> pg.adaptive,
         fee_floor_sat |-> FFValues(pg, c)[pos.f],
         G_ratio |-> c.G_ratio_grid[pos.g],
         G_norm |-> GNorm(c.G_ratio_grid[pos.g], feed)]

\* total_runs
TotalRuns(c) ==
    SumSeq([p \in 1..Len(policy_groups) |->
        IF policy_groups[p].feefloor
        THEN Len(c.G_ratio_grid) * Len(c.fee_floor_grid)
        ELSE Len(c.G_ratio_grid)])

\* --------------------------------------------------------------- run_once()
\* cost_map: the rows of daily_costs in order, a later row of a key replacing
\* an earlier one; the price of the row's date, or the mean price of the feed.
DatePrice(feed, d) ==
    LET idx == {k \in 1..Len(feed) : feed[k].date = d}
    IN  IF idx = {} THEN MeanPrice(feed)
        ELSE feed[CHOOSE k \in idx : \A j \in idx : k <= j].btc_usd

CostMap(table, feed) ==
    LET keys == {<<table[k].date, table[k].miner_id>> : k \in 1..Len(table)}
        last(key) == CHOOSE k \in 1..Len(table) :
                        /\ <<table[k].date, table[k].miner_id>> = key
                        /\ \A j \in 1..Len(table) :
                              <<table[j].date, table[j].miner_id>> = key => j <= k
    IN  [key \in keys |->
            CostSatPerBlock(table[last(key)].cost_usd_per_day,
                            DatePrice(feed, table[last(key)].date))]

\* The lookup with 0 as its default instead of the miner's average cost.
BlockCostZeroDefault(cmap, block_date, mid, fallback) ==
    IF <<block_date, mid>> \in DOMAIN cmap THEN cmap[<<block_date, mid>>]
    ELSE 0

\* cost_map.get((block_date, mid), costs[i])
BlockCost(cmap, block_date, mid, fallback) ==
    IF <<block_date, mid>> \in DOMAIN cmap THEN cmap[<<block_date, mid>>]
    ELSE fallback

\* basefee_update without its upper limit.
basefee_update_uncapped(bf, U_t) ==
    IF ~args.enable_basefee THEN bf
    ELSE LET delta == (cfg.alpha * (U_t - cfg.U_star)) \div cfg.U_star
         IN  Max(0, (bf * (AS + delta)) \div AS)

\* basefee_update adding the relative change to the base fee.
basefee_update_additive(bf, U_t) ==
    IF ~args.enable_basefee THEN bf
    ELSE LET delta == (cfg.alpha * (U_t - cfg.U_star)) \div cfg.U_star
         IN  Min(Max(0, bf + delta), BASEFEE_CAP)

\* basefee_update without the check of enable_basefee.
basefee_update_always(bf, U_t) ==
    LET delta == (cfg.alpha * (U_t - cfg.U_star)) \div cfg.U_star
        new_basefee == Max(0, (bf * (AS + delta)) \div AS)
    IN  Min(new_basefee, BASEFEE_CAP)

basefee_update(bf, U_t) ==
    IF ~args.enable_basefee THEN bf
    ELSE LET delta == (cfg.alpha * (U_t - cfg.U_star)) \div cfg.U_star
             new_basefee == Max(0, (bf * (AS + delta)) \div AS)
         IN  Min(new_basefee, BASEFEE_CAP)

\* adaptive_B without the clamps to B_min_vB and B_max_vB.
adaptive_B_unclamped(B, U_t) ==
    IF ~args.enable_adaptive THEN B
    ELSE IF U_t > cfg.U_star THEN ((100 + cfg.delta_step) * B) \div 100
    ELSE IF U_t < cfg.U_star THEN ((100 - cfg.delta_step) * B) \div 100
    ELSE B

\* adaptive_B growing the capacity also at the target utilization.
adaptive_B_grows_at_target(B, U_t) ==
    IF ~args.enable_adaptive THEN B
    ELSE IF U_t >= cfg.U_star
         THEN Min(cfg.B_max_vB, ((100 + cfg.delta_step) * B) \div 100)
    ELSE Max(cfg.B_min_vB, ((100 - cfg.delta_step) * B) \div 100)

adaptive_B(B, U_t) ==
    IF ~args.enable_adaptive THEN B
    ELSE IF U_t > cfg.U_star
         THEN Min(cfg.B_max_vB, ((100 + cfg.delta_step) * B) \div 100)
    ELSE IF U_t < cfg.U_star
         THEN Max(cfg.B_min_vB, ((100 - cfg.delta_step) * B) \div 100)
    ELSE B

\* The comparison of the docstring of decide_and_record: a tie deviates.
DevFlagTieDeviates(profit_honest, profit_dev) ==
    IF profit_dev >= profit_honest THEN 1 ELSE 0

\* The comparison with its operands exchanged.
DevFlagReversed(profit_honest, profit_dev) ==
    IF profit_honest > profit_dev THEN 1 ELSE 0

\* Miner.decide_and_record: the record appended to the miner's history.
DevFlag(profit_honest, profit_dev) ==
    IF profit_dev > profit_honest THEN 1 ELSE 0

\* decide_and_record numbering the rounds from 1.
decide_and_record_one_based(block_idx, profit_honest, profit_dev) ==
    [block_idx |-> block_idx + 1, profit_honest |-> profit_honest,
     profit_dev |-> profit_dev,
     dev_flag |-> DevFlag(profit_honest, profit_dev)]

decide_and_record(block_idx, profit_honest, profit_dev) ==
    [block_idx |-> block_idx, profit_honest |-> profit_honest,
     profit_dev |-> profit_dev,
     dev_flag |-> DevFlag(profit_honest, profit_dev)]

\* lambda_rate * delay, in units of 1/QS, of a delay in milliseconds.
RateTimes(delay_ms) == (cfg.lambda_block_rate * delay_ms) \div 100000

\* 1 - np.exp(-lambda_rate * delay)
Rho(delay_ms) == QS - ExpNeg(RateTimes(delay_ms))

\* rho_dev with a penalty of one second whatever w_sec is.
RhoDevFixedPenalty(delay_ms) == Rho(delay_ms + 1000)

\* rho_dev with the latency penalty taken off the delay.
RhoDevPenaltySubtracted(delay_ms) == Rho(delay_ms - cfg.w_seconds)

\* 1 - np.exp(-lambda_rate * (delay + w_sec))
RhoDev(delay_ms) == Rho(delay_ms + cfg.w_seconds)

\* actual_blocks_count counting every round.
CountBlocksEveryRound(n, a) == n + 1

\* actual_blocks_count after a round whose producer has index a (0: none).
CountBlocks(n, a) == IF a # 0 THEN n + 1 ELSE n

\* deviates counting the rounds whose producer decided honest.
CountDeviatesHonest(devs, a, flag) == IF a # 0 THEN devs + (1 - flag) ELSE devs

\* deviates after a round whose producer has index a and recorded flag.
CountDeviates(devs, a, flag) == IF a # 0 THEN devs + flag ELSE devs

\* The controller state of the previous run carried into the next one.
StaleController ==
    IF run_count = 0 THEN [basefee |-> cfg.basefee0, Bt_vB |-> cfg.B_min_vB]
    ELSE [basefee |-> basefee, Bt_vB |-> Bt_vB]

\* The controller state a run starts from.
FreshController == [basefee |-> cfg.basefee0, Bt_vB |-> cfg.B_min_vB]

\* The index in miner_ids of the miner that mined the block, 0 if none
\* (actual_miner_idx, None in the source).
ActualMinerIdx(actual_miner_id) ==
    IF \E i \in Miners : miner_ids[i] = actual_miner_id
    THEN CHOOSE i \in Miners :
            /\ miner_ids[i] = actual_miner_id
            /\ \A j \in Miners : miner_ids[j] = actual_miner_id => i <= j
    ELSE 0

\* A profit in money units (the unit of the ROI and Vi accumulators).
Money(profit) == profit \div PS

\* The index that stays at the last record of the feed once the rounds have
\* passed its end.
RecordIndexClamped(round, n) == Min(round, n - 1)

\* idx = t % len(block_data)
RecordIndex(round, n) == round % n

\* The utilization measured against the largest capacity.
UtilizationOfMaximum(vB_t, B) == Min(US, (vB_t * US) \div cfg.B_max_vB)

\* U_t = min(1.0, vB_t / Bt_vB)
Utilization(vB_t, B) == Min(US, (vB_t * US) \div B)

\* The controller step with the utilization measured again after the capacity
\* has been adjusted.
ControllerStepRemeasured(B, bf, vB_t) ==
    LET new_Bt_vB == adaptive_B(B, Utilization(vB_t, B))
        U_t == Utilization(vB_t, new_Bt_vB)
    IN  [U_t |-> U_t, Bt_vB |-> new_Bt_vB, basefee |-> basefee_update(bf, U_t)]

\* The controller step of a round: the utilization against the capacity at
\* the start of the round, then adaptive_B, then basefee_update.
ControllerStep(B, bf, vB_t) ==
    LET U_t == Utilization(vB_t, B)
    IN  [U_t |-> U_t, Bt_vB |-> adaptive_B(B, U_t),
         basefee |-> basefee_update(bf, U_t)]

\* The fee with the base-fee charge added to the raw fee.
FeeAfterBaseAdded(F_raw, F_base) ==
    IF args.enable_basefee THEN F_raw + F_base ELSE F_raw

\* The fee with the base fee applied whether or not it is enabled.
FeeAfterBaseAlways(F_raw, F_base) == Max(F_raw, F_base)

\* F = max(F_raw, F_base) if enable_basefee else F_raw
FeeAfterBase(F_raw, F_base) ==
    IF args.enable_basefee THEN Max(F_raw, F_base) ELSE F_raw

\* F_eff = max(F, fee_floor_sat) if enable_feefloor else F
FeeAfterFloor(F) ==
    IF args.enable_feefloor THEN Max(F, args.fee_floor_sat) ELSE F

\* The delay taken from the capacity the round started with.
PropagationDelayOfStartCapacity(B) ==
    cfg.base_delay_ms + (cfg.kappa_ms_per_MB * Bt_vB) \div 1000

\* delta_ms = base_delay + kappa * Bt_MB, of a capacity in vB.
PropagationDelay(B) == cfg.base_delay_ms + (cfg.kappa_ms_per_MB * B) \div 1000

\* profit_honest = p_hon * X_t - block_costs[i], in profit units.
ProfitHonest(share, rho_honest, X_t, cost) ==
    share * (QS - rho_honest) * X_t - cost * PS

\* The deviation profit with the bonus G_t paid whether or not the block
\* survives.
ProfitDevBonusCertain(share, rho_dev, X_t, G_t, cost) ==
    share * (QS - rho_dev) * X_t + G_t * PS - cost * PS

\* profit_dev = p_dev * (X_t + G_t) - block_costs[i], in profit units.
ProfitDev(share, rho_dev, X_t, G_t, cost) ==
    share * (QS - rho_dev) * (X_t + G_t) - cost * PS

\* The margin with ratio_i taken relative to the honest survival probability.
DeviationMarginOfHonestOdds(G_t, X_t, rho_honest, rho_dev) ==
    [num |-> G_t * Max(QS - rho_honest, EPS),
     den |-> Max((rho_dev - rho_honest) * X_t, EPS)]

\* D_t = G_t / max(ratio_i * X_t, 1e-12) with
\* ratio_i = (rho_dev - rho_honest) / max(1 - rho_dev, 1e-12), kept as the
\* fraction num/den with the divisions cleared.
DeviationMargin(G_t, X_t, rho_honest, rho_dev) ==
    [num |-> G_t * Max(QS - rho_dev, EPS),
     den |-> Max((rho_dev - rho_honest) * X_t, EPS)]

\* The locals of one iteration of the loop of run_once, from the state
\* before it.
RoundLocals ==
    LET idx == RecordIndex(t, Len(block_data))
        block_row == block_data[idx + 1]
        F_rate == block_row.avg_sat_per_vb
        M == block_row.mev_sat
        R_t_original == block_row.block_subsidy_sat
        R_t == IF cfg.include_block_reward THEN R_t_original ELSE 0
        vB_t == block_row.total_vbytes
        block_date == block_row.date
        actual_miner_id ==
            IF block_row.miner_id # NaN THEN block_row.miner_id ELSE NO_MINER
        controller == ControllerStep(Bt_vB, basefee, vB_t)
        U_t == controller.U_t
        new_Bt_vB == controller.Bt_vB
        new_basefee == controller.basefee
        F_raw == (F_rate * vB_t) \div 1000
        F_base == (new_basefee * vB_t) \div 1000
        F == FeeAfterBase(F_raw, F_base)
        F_eff == FeeAfterFloor(F)
        delta_ms == PropagationDelay(new_Bt_vB)
        rho_honest == Rho(delta_ms)
        rho_dev == RhoDev(delta_ms)
        X_t == R_t + F_eff + M
        congestion_ratio == (U_t * CS) \div cfg.U_star
        G_t == (args.G_norm * congestion_ratio) \div CS
        block_costs ==
            [i \in Miners |-> BlockCost(cost_map, block_date, miner_ids[i], costs[i])]
        records ==
            [i \in Miners |->
                decide_and_record(t,
                    ProfitHonest(shares[i], rho_honest, X_t, block_costs[i]),
                    ProfitDev(shares[i], rho_dev, X_t, G_t, block_costs[i]))]
        ratio_i == ((rho_dev - rho_honest) * RS) \div Max(QS - rho_dev, EPS)
        D_t == DeviationMargin(G_t, X_t, rho_honest, rho_dev)
    IN  [block_idx |-> t, idx |-> idx, block_row |-> block_row,
         U_t |-> U_t, Bt_vB |-> new_Bt_vB, basefee |-> new_basefee,
         F_raw |-> F_raw, F |-> F, F_eff |-> F_eff,
         rho_honest |-> rho_honest, rho_dev |-> rho_dev,
         X_t |-> X_t, G_t |-> G_t, block_costs |-> block_costs,
         actual_miner_idx |-> ActualMinerIdx(actual_miner_id),
         records |-> records, ratio_i |-> ratio_i, D_t |-> D_t]

NoRound == [block_idx |-> -1]

\* ------------------------------------------------------------------ actions
Init ==
    /\ block_data \in Feeds
    /\ \E case \in InputCases :
          /\ cfg = case.cfg
          /\ miner_ids = case.pool.miner_ids
          /\ shares = case.pool.shares
          /\ daily_costs = case.pool.daily_costs
          /\ columns = case.columns
          /\ cost_columns = case.cost_columns
    /\ costs = <<>>
    /\ state = "START"
    /\ out_dir = {}
    /\ error = "none"
    /\ loop = FirstCombo
    /\ run_count = 0
    /\ rows = <<>>
    /\ results_csv = <<>>
    /\ args = <<>>
    /\ cost_map = <<>>
    /\ t = 0
    /\ basefee = 0
    /\ Bt_vB = 0
    /\ deviates = 0
    /\ actual_blocks_count = 0
    /\ total_honest_blocks = 0
    /\ total_dev_blocks = 0
    /\ roi_numer = <<>>
    /\ total_costs_accum = <<>>
    /\ dt_list = <<>>
    /\ history = <<>>
    /\ Vi = <<>>
    /\ rnd = NoRound
    /\ result = <<>>

\* main() ends with an exception.
Raise(kind) ==
    /\ state' = "ERROR"
    /\ error' = kind

\* main() reads the cost table, selects the miners and computes their
\* run-start average costs at the mean price of the feed.
LoadMiners ==
    /\ state = "START"
    /\ IF ~({"miner_id", "pool_name", "daily_share", "cost_usd_per_day"}
                \subseteq cost_columns)
       THEN Raise("cost_table") /\ UNCHANGED costs
       ELSE IF "btc_usd" \notin columns
       THEN Raise("btc_usd") /\ UNCHANGED costs
       ELSE /\ costs' = InitialCosts(daily_costs, block_data, miner_ids)
            /\ state' = "MINERS"
            /\ UNCHANGED error
    /\ UNCHANGED <<cfg, block_data, daily_costs, miner_ids, shares, columns,
                   cost_columns, out_dir, sweep, run, result>>

\* main() creates the run directory and copies the configuration into it.
MakeRunDir ==
    /\ state = "MINERS"
    /\ out_dir' = out_dir \cup {"config.yaml"}
    /\ state' = "RUN_DIR"
    /\ UNCHANGED <<inputs, error, sweep, run, result>>

\* main() loads the feed and checks its required columns.
LoadBlockData ==
    /\ state = "RUN_DIR"
    /\ IF ~(required_cols \subseteq columns)
       THEN Raise("required_column")
       ELSE state' = "BLOCKS" /\ UNCHANGED error
    /\ UNCHANGED <<inputs, out_dir, sweep, run, result>>

\* main() reads the grids of the sweep from the configuration.
ReadGrids ==
    /\ state = "BLOCKS"
    /\ IF ~({"G_ratio_grid", "fee_floor_grid"} \subseteq DOMAIN cfg)
       THEN Raise("grid")
       ELSE state' = "IDLE" /\ UNCHANGED error
    /\ UNCHANGED <<inputs, out_dir, sweep, run, result>>

\* The checks of run_once before its loop: the cost table has a row, the feed
\* has btc_usd, and the rows of the cost table have the columns read from them.
RunInputsValid ==
    /\ daily_costs # <<>>
    /\ "btc_usd" \in columns
    /\ {"cost_usd_per_day", "date", "miner_id"} \subseteq cost_columns

\* One pass of the innermost loop of main() up to the loop of run_once:
\* the next combination is taken and run_once sets up its run.
StartRun ==
    /\ state \in {"IDLE", "FINALIZED"}
    /\ ~SweepOver(loop, cfg)
    /\ RunInputsValid
    /\ LET pos == Settle(loop, cfg)
       IN  /\ args' = RunArgs(pos, cfg, block_data)
           /\ loop' = [pos EXCEPT !.f = pos.f + 1]
    /\ run_count' = run_count + 1
    /\ history' = [i \in Miners |-> <<>>]
    /\ Vi' = [i \in Miners |-> [Vi_honest |-> 0, Vi_dev |-> 0]]
    /\ cost_map' = CostMap(daily_costs, block_data)
    /\ deviates' = 0
    /\ actual_blocks_count' = 0
    /\ roi_numer' = [i \in Miners |-> 0]
    /\ total_costs_accum' = [i \in Miners |-> 0]
    /\ total_honest_blocks' = 0
    /\ total_dev_blocks' = 0
    /\ dt_list' = <<>>
    /\ basefee' = FreshController.basefee
    /\ Bt_vB' = FreshController.Bt_vB
    /\ t' = 0
    /\ rnd' = NoRound
    /\ state' = "RUNNING"
    /\ UNCHANGED <<inputs, outcome, rows, results_csv, result>>

\* The run_once call of a combination raises before its loop: the miners
\* exist and nothing else of the run does.
StartRunRaises ==
    /\ state \in {"IDLE", "FINALIZED"}
    /\ ~SweepOver(loop, cfg)
    /\ ~RunInputsValid
    /\ LET pos == Settle(loop, cfg)
       IN  args' = RunArgs(pos, cfg, block_data)
    /\ run_count' = run_count + 1
    /\ history' = [i \in Miners |-> <<>>]
    /\ Raise(IF "btc_usd" \notin columns /\ daily_costs # <<>>
             THEN "btc_usd" ELSE "cost_table")
    /\ UNCHANGED <<inputs, out_dir, loop, rows, results_csv, cost_map, t, basefee,
                   Bt_vB, deviates, actual_blocks_count, total_honest_blocks,
                   total_dev_blocks, roi_numer, total_costs_accum, dt_list, Vi,
                   rnd, result>>

\* One iteration of the loop of run_once.
Round ==
    /\ state = "RUNNING"
    /\ t < cfg.T
    /\ "miner_id" \in columns
    /\ rnd' = RoundLocals
    /\ Bt_vB' = rnd'.Bt_vB
    /\ basefee' = rnd'.basefee
    /\ history' = [i \in Miners |-> Append(history[i], rnd'.records[i])]
    /\ LET a == rnd'.actual_miner_idx
           flag == IF a # 0 THEN history'[a][Len(history'[a])].dev_flag ELSE 0
       IN  /\ actual_blocks_count' = CountBlocks(actual_blocks_count, a)
           /\ deviates' = CountDeviates(deviates, a, flag)
           /\ total_honest_blocks' =
                 IF a # 0 /\ flag = 0 THEN total_honest_blocks + 1
                 ELSE total_honest_blocks
           /\ total_dev_blocks' =
                 IF a # 0 /\ flag # 0 THEN total_dev_blocks + 1
                 ELSE total_dev_blocks
    /\ roi_numer' =
          [i \in Miners |->
              roi_numer[i] + Money(history'[i][Len(history'[i])].profit_honest)]
    /\ total_costs_accum' =
          [i \in Miners |-> total_costs_accum[i] + rnd'.block_costs[i]]
    /\ dt_list' = Append(dt_list, rnd'.D_t)
    /\ t' = t + 1
    /\ UNCHANGED <<inputs, state, outcome, sweep, args, cost_map, Vi, result>>

\* An iteration over a feed without the miner_id column raises at the read
\* of block_row['miner_id'], before anything of the round is stored.
RoundRaises ==
    /\ state = "RUNNING"
    /\ t < cfg.T
    /\ "miner_id" \notin columns
    /\ Raise("miner_id")
    /\ UNCHANGED <<inputs, out_dir, sweep, run, result>>

\* gamma ** k, in units of 1/GS.
RECURSIVE GammaPow(_)
GammaPow(k) == IF k = 0 THEN GS ELSE (GammaPow(k - 1) * cfg.gamma) \div GS

\* Miner.compute_vi_post: the discounted sums over a history.
RECURSIVE DiscountedSum(_, _, _)
DiscountedSum(h, field, k) ==
    IF k > Len(h) THEN 0
    ELSE (GammaPow(k - 1) * Money(h[k][field])) \div GS
         + DiscountedSum(h, field, k + 1)

compute_vi_post(h) ==
    [Vi_honest |-> DiscountedSum(h, "profit_honest", 1),
     Vi_dev |-> DiscountedSum(h, "profit_dev", 1)]

\* beta_bar with numerator and denominator exchanged.
BetaBarInverted(devs, blocks) ==
    IF blocks > 0 THEN [num |-> blocks, den |-> devs] ELSE [num |-> 0, den |-> 1]

\* beta_bar with 1.0 as the value of a run without realized block.
BetaBarDefaultOne(devs, blocks) ==
    IF blocks > 0 THEN [num |-> devs, den |-> blocks] ELSE [num |-> 1, den |-> 1]

\* beta_bar = deviates / actual_blocks_count if actual_blocks_count > 0 else 0.0,
\* kept as the fraction num/den.
BetaBar(devs, blocks) ==
    IF blocks > 0 THEN [num |-> devs, den |-> blocks] ELSE [num |-> 0, den |-> 1]

\* stable_bft with the boundary included.
StableBftInclusive(beta_bar) == 3 * beta_bar.num <= beta_bar.den

\* stable_bft = beta_bar < (1/3)
StableBft(beta_bar) == 3 * beta_bar.num < beta_bar.den

\* ROI_per_miner, in units of 1/100.
RoiPerMiner(numer, accum) ==
    [i \in Miners |-> IF accum[i] > 0 THEN (numer[i] * 100) \div accum[i] ELSE 0]

Mean(f) == SumSeq(f) \div Len(f)

Std(f) ==
    LET m == Mean(f)
    IN  Sqrt(Mean([i \in DOMAIN f |-> (f[i] - m) * (f[i] - m)]))

\* pr_D_ge_1 = (dt_arr >= 1.0).mean(), as the fraction num/den; 0/0 is the
\* nan of an empty dt_list.
PrDGe1(dts) ==
    [num |-> Cardinality({k \in 1..Len(dts) : dts[k].num >= dts[k].den}),
     den |-> Len(dts)]

\* The dict run_once returns (without history_records and miners, which
\* main() drops from the row).
RunResult ==
    LET beta_bar == BetaBar(deviates, actual_blocks_count)
        roi == RoiPerMiner(roi_numer, total_costs_accum)
    IN  [beta_bar |-> beta_bar,
         ROI_mean |-> Mean(roi), ROI_std |-> Std(roi),
         stable_bft |-> StableBft(beta_bar),
         rho_honest |-> IF t > 0 THEN rnd.rho_honest ELSE 0,
         rho_dev |-> IF t > 0 THEN rnd.rho_dev ELSE 0,
         pr_D_ge_1 |-> PrDGe1(dt_list),
         U_star |-> cfg.U_star, delta_step |-> cfg.delta_step,
         enable_basefee |-> args.enable_basefee,
         enable_feefloor |-> args.enable_feefloor,
         enable_adaptive |-> args.enable_adaptive,
         fee_floor_sat |-> args.fee_floor_sat,
         B_min_vB |-> cfg.B_min_vB, B_max_vB |-> cfg.B_max_vB,
         w_sec |-> cfg.w_seconds, alpha |-> cfg.alpha]

\* result_clean with the configuration main() adds to it.
ResultRow(res) ==
    res @@ [policy_group |-> args.policy_group, G_ratio |-> args.G_ratio,
            G_norm |-> args.G_norm,
            include_block_reward |-> cfg.include_block_reward]

\* The end of run_once after its loop, and the row main() appends.
Finalize ==
    /\ state = "RUNNING"
    /\ t = cfg.T
    /\ Vi' = [i \in Miners |-> compute_vi_post(history[i])]
    /\ result' = RunResult
    /\ rows' = Append(rows, ResultRow(result'))
    /\ state' = "FINALIZED"
    /\ UNCHANGED <<inputs, outcome, loop, run_count, results_csv, args, cost_map,
                   t, basefee, Bt_vB, deviates, actual_blocks_count, total_honest_blocks,
                   total_dev_blocks, roi_numer, total_costs_accum, dt_list,
                   history, rnd>>

\* After the last combination main() writes the rows to results.csv.
WriteResults ==
    /\ state \in {"IDLE", "FINALIZED"}
    /\ SweepOver(loop, cfg)
    /\ results_csv' = rows
    /\ out_dir' = out_dir \cup {"results.csv"}
    /\ state' = "DONE"
    /\ UNCHANGED <<inputs, error, loop, run_count, rows, run, result>>

Next ==
    \/ LoadMiners \/ MakeRunDir \/ LoadBlockData \/ ReadGrids
    \/ StartRun \/ StartRunRaises \/ Round \/ RoundRaises
    \/ Finalize \/ WriteResults

Spec == Init /\ [][Next]_vars

\* ------------------------------------------------------------------ claims
\* run_once has set up a run: no exception ended main().
RunSetUp == run_count > 0 /\ error = "none"

\* Every decision record of the histories of the current run.
DecisionRecords ==
    UNION {{history[i][k] : k \in 1..Len(history[i])} : i \in DOMAIN history}

Scenario1 ==
    /\ RunSetUp
    /\ num_miners = 1
    /\ shares[1] = SS
    /\ costs[1] = 0
    /\ \A key \in DOMAIN cost_map : cost_map[key] = 0
    /\ cfg.w_seconds = 0

\* C2 as stated: in scenario 1 rho_dev = rho_honest in every round, no
\* deviation profit strictly exceeds the honest profit, and beta_bar is 0.
Orig_C2_Scenario1NeverDeviates ==
    Scenario1 =>
        /\ t > 0 => rnd.rho_dev = rnd.rho_honest
        /\ \A r \in DecisionRecords : ~(r.profit_dev > r.profit_honest)
        /\ state = "FINALIZED" => result.beta_bar.num = 0

\* C2 amended: in scenario 1 rho_dev = rho_honest in every round; when
\* moreover G_norm = 0 no deviation profit strictly exceeds the honest profit
\* and beta_bar is 0.
Thm_C2_Scenario1ZeroIncentive ==
    Scenario1 =>
        /\ t > 0 => rnd.rho_dev = rnd.rho_honest
        /\ args.G_norm = 0 =>
              /\ \A r \in DecisionRecords : ~(r.profit_dev > r.profit_honest)
              /\ state = "FINALIZED" => result.beta_bar.num = 0

Wit_C2_Scenario1Finalized ==
    /\ Scenario1
    /\ args.G_norm = 0
    /\ state = "FINALIZED"
    /\ actual_blocks_count > 0
    /\ result.beta_bar.num = 0

\* C3: the realized deviation count is between 0 and the realized block
\* count after any number of rounds, and the beta_bar of a run is in [0, 1].
Thm_C3_BetaBarInUnitInterval ==
    /\ 0 <= deviates
    /\ deviates <= actual_blocks_count
    /\ state = "FINALIZED" =>
          /\ result.beta_bar.den > 0
          /\ 0 <= result.beta_bar.num
          /\ result.beta_bar.num <= result.beta_bar.den

Wit_C3_SomeButNotAllDeviate ==
    /\ state = "FINALIZED"
    /\ 0 < deviates
    /\ deviates < actual_blocks_count

\* C4: stable_bft of a run result is true if and only if beta_bar < 1/3; a
\* run whose beta_bar is exactly 1/3 is not stable.
Thm_C4_StableIffBelowThird ==
    state = "FINALIZED" =>
        (result.stable_bft <=>
            (actual_blocks_count = 0 \/ 3 * deviates < actual_blocks_count))

Wit_C4_ExactlyOneThird ==
    /\ state = "FINALIZED"
    /\ actual_blocks_count > 0
    /\ 3 * deviates = actual_blocks_count
    /\ ~result.stable_bft

\* C5: with B_min <= B_max the block capacity after every round is at least
\* B_min and at most B_max, whatever the feed and the enablement flags.
Thm_C5_CapacityWithinBounds ==
    (RunSetUp /\ cfg.B_min_vB <= cfg.B_max_vB) =>
        (cfg.B_min_vB <= Bt_vB /\ Bt_vB <= cfg.B_max_vB)

Wit_C5_CapacityCappedAtMax ==
    /\ RunSetUp
    /\ args.enable_adaptive
    /\ cfg.U_star = 7500
    /\ cfg.delta_step = 5
    /\ cfg.B_min_vB < cfg.B_max_vB
    /\ t >= 2
    /\ Bt_vB = cfg.B_max_vB
    /\ (cfg.B_max_vB * 100) % (100 + cfg.delta_step) # 0

\* C6: with the base-fee policy enabled and an initial base fee in
\* [0, BASEFEE_CAP], the base fee after every round is in [0, BASEFEE_CAP].
Thm_C6_BasefeeWithinBounds ==
    (/\ RunSetUp
     /\ args.enable_basefee
     /\ 0 <= cfg.basefee0
     /\ cfg.basefee0 <= BASEFEE_CAP) =>
        (0 <= basefee /\ basefee <= BASEFEE_CAP)

Wit_C6_BasefeeClampedAtCap ==
    /\ RunSetUp
    /\ args.enable_basefee
    /\ cfg.basefee0 < BASEFEE_CAP
    /\ t > 0
    /\ basefee = BASEFEE_CAP

\* Two result rows of the same policy archetype and fee floor.
SameCell(i, j) ==
    /\ rows[i].policy_group = rows[j].policy_group
    /\ rows[i].fee_floor_sat = rows[j].fee_floor_sat

\* beta_bar of row i is at most (less than) beta_bar of row j.
BetaLeq(i, j) ==
    rows[i].beta_bar.num * rows[j].beta_bar.den
        <= rows[j].beta_bar.num * rows[i].beta_bar.den
BetaLess(i, j) ==
    rows[i].beta_bar.num * rows[j].beta_bar.den
        < rows[j].beta_bar.num * rows[i].beta_bar.den

\* C7: of two runs of a sweep with the same archetype and fee floor, the one
\* with the larger G_ratio never has the smaller beta_bar.
Thm_C7_BetaBarMonotoneInGRatio ==
    \A i, j \in 1..Len(rows) :
        (SameCell(i, j) /\ rows[i].G_ratio <= rows[j].G_ratio) => BetaLeq(i, j)

Wit_C7_LargerRatioMoreDeviation ==
    \E i, j \in 1..Len(rows) :
        SameCell(i, j) /\ rows[i].G_ratio < rows[j].G_ratio /\ BetaLess(i, j)

\* C8: every run starts from base fee basefee0, capacity B_min, zeroed
\* counters and empty histories, and two runs of one sweep with the same
\* configuration yield identical result rows.
Thm_C8_SameConfigurationSameResult ==
    /\ (state = "RUNNING" /\ t = 0) =>
          /\ basefee = cfg.basefee0
          /\ Bt_vB = cfg.B_min_vB
          /\ deviates = 0 /\ actual_blocks_count = 0
          /\ total_honest_blocks = 0 /\ total_dev_blocks = 0
          /\ dt_list = <<>>
          /\ \A i \in Miners :
                history[i] = <<>> /\ roi_numer[i] = 0 /\ total_costs_accum[i] = 0
    /\ \A i, j \in 1..Len(rows) :
          (SameCell(i, j) /\ rows[i].G_ratio = rows[j].G_ratio) => rows[i] = rows[j]

Wit_C8_ConfigurationRunTwice ==
    \E i, j \in 1..Len(rows) :
        /\ i < j
        /\ SameCell(i, j) /\ rows[i].G_ratio = rows[j].G_ratio
        /\ rows[i].enable_basefee /\ rows[i].enable_adaptive
        /\ cfg.T = MaxT
        /\ rows[i].beta_bar.num > 0
        /\ rows[i] = rows[j]

\* C9: a round whose producer is not in the active miner set leaves the
\* realized block and deviation counts and the honest/deviation block
\* counters unchanged, and still applies the capacity and base-fee updates
\* and appends one decision record to every miner.
UnmatchedRoundFrame ==
    (state = "RUNNING" /\ t' = t + 1 /\ rnd'.actual_miner_idx = 0) =>
        /\ UNCHANGED <<actual_blocks_count, deviates,
                       total_honest_blocks, total_dev_blocks>>
        /\ rnd'.U_t = Min(US, (rnd'.block_row.total_vbytes * US) \div Bt_vB)
        /\ Bt_vB' = adaptive_B(Bt_vB, rnd'.U_t)
        /\ basefee' = basefee_update(basefee, rnd'.U_t)
        /\ \A i \in Miners :
              /\ Len(history'[i]) = Len(history[i]) + 1
              /\ history'[i][Len(history'[i])].block_idx = t

\* C9: every step of the sweep satisfies the frame of an unmatched round.
Thm_C9_UnmatchedRoundCountsNothing == [][UnmatchedRoundFrame]_vars

Wit_C9_UnmatchedRoundUpdatesController ==
    /\ state = "RUNNING"
    /\ t > 0
    /\ rnd.actual_miner_idx = 0
    /\ actual_blocks_count = 0
    /\ basefee # cfg.basefee0
    /\ Bt_vB # cfg.B_min_vB
    /\ \A i \in Miners : Len(history[i]) = t

\* C10: after t completed rounds every miner's history holds exactly t
\* records, the k-th carrying round index k - 1 (rounds count from 0), and no
\* step of a run, the post-run discounted-value computation included,
\* modifies or removes a record.
HistoryShape ==
    RunSetUp =>
        \A i \in Miners :
            /\ Len(history[i]) = t
            /\ \A k \in 1..Len(history[i]) : history[i][k].block_idx = k - 1

HistoryAppendOnly ==
    run_count' = run_count =>
        \A i \in DOMAIN history :
            /\ Len(history'[i]) >= Len(history[i])
            /\ SubSeq(history'[i], 1, Len(history[i])) = history[i]

\* C10: the histories always have the shape of t completed rounds, and every
\* step within a run keeps the records already appended.
Thm_C10_HistoryAppendOnly == [](HistoryShape) /\ [][HistoryAppendOnly]_vars

Wit_C10_HistoryReadBack ==
    /\ state = "FINALIZED"
    /\ t = MaxT
    /\ num_miners = 2
    /\ \A i \in Miners : Len(history[i]) = MaxT
    /\ Vi[1].Vi_honest # 0

\* A fatal configuration error ended main(): a required grid is absent from
\* the configuration, the feed lacks a required column, or the cost table is
\* empty or lacks a column.
ConfigurationError ==
    state = "ERROR" /\ error \in {"grid", "required_column", "cost_table"}

\* No iteration of the loop of run_once has run in any run.
NoRoundExecuted ==
    /\ t = 0
    /\ rnd = NoRound
    /\ dt_list = <<>>
    /\ \A i \in DOMAIN history : history[i] = <<>>

\* C11: when main() ends with a fatal configuration error, no round of any
\* run has executed and the sweep has produced no output: no result row, no
\* results table, and no file in the run directory.
Orig_C11_ConfigErrorLeavesNoOutput ==
    ConfigurationError =>
        /\ NoRoundExecuted
        /\ rows = <<>>
        /\ results_csv = <<>>
        /\ out_dir = {}

\* The feed has the five required columns and lacks an additional one, and
\* everything else main() reads is complete.
OnlyOptionalColumnMissing ==
    /\ required_cols \subseteq columns
    /\ columns # FeedColumns
    /\ cost_columns = PoolColumns
    /\ daily_costs # <<>>
    /\ {"G_ratio_grid", "fee_floor_grid"} \subseteq DOMAIN cfg

\* C12: height, btc_usd and miner_id are optional: over a feed with the five
\* required columns that lacks any of them, no run ends with a fatal error.
Orig_C12_OptionalColumnsNeverFatal ==
    OnlyOptionalColumnMissing => error = "none"

\* The rows of the cost table for a date and a miner id.
CostRows(d, mid) ==
    {k \in 1..Len(daily_costs) :
        daily_costs[k].date = d /\ daily_costs[k].miner_id = mid}

\* The cost of miner i in a round whose block has date d: the last row of the
\* cost table for the date and the miner, converted at the price of the date,
\* and the miner's run-start average cost when the table has no such row.
ResolvedCost(i, d) ==
    LET found == CostRows(d, miner_ids[i])
    IN  IF found # {}
        THEN CostSatPerBlock(
                 daily_costs[CHOOSE k \in found : \A j \in found : j <= k]
                     .cost_usd_per_day,
                 DatePrice(block_data, d))
        ELSE costs[i]

\* Every file main() reads is complete.
InputsComplete ==
    /\ columns = FeedColumns
    /\ cost_columns = PoolColumns
    /\ daily_costs # <<>>
    /\ {"G_ratio_grid", "fee_floor_grid"} \subseteq DOMAIN cfg

\* C13: the cost of every miner in a round is the entry of the cost table for
\* the block's date and the miner's id when there is one, and the miner's own
\* run-start average cost otherwise, whatever the other miners' entries are;
\* with complete inputs no run ends with an error, so a missing entry does
\* not abort it.
Thm_C13_CostEntryOrOwnAverage ==
    /\ (RunSetUp /\ t > 0) =>
          \A i \in Miners : rnd.block_costs[i] = ResolvedCost(i, rnd.block_row.date)
    /\ InputsComplete => error = "none"

\* A round in which one miner has an entry and another has none and pays its
\* own, non-zero and different, average cost.
Wit_C13_OneMinerFallsBack ==
    /\ RunSetUp
    /\ t > 0
    /\ \E i, j \in Miners :
          /\ CostRows(rnd.block_row.date, miner_ids[i]) # {}
          /\ CostRows(rnd.block_row.date, miner_ids[j]) = {}
          /\ rnd.block_costs[j] = costs[j]
          /\ costs[j] > 0
          /\ costs[j] # costs[i]
          /\ rnd.block_costs[i] # costs[i]

\* The record the last completed round read is the record at position
\* (round mod N) of the feed, counting from 0; the round after the last record
\* reads the first record again.
RoundReadsCyclicRecord ==
    (RunSetUp /\ t > 0) =>
        LET N == Len(block_data)
            round == t - 1
        IN  /\ rnd.idx = round % N
            /\ rnd.block_row = block_data[(round % N) + 1]
            /\ round = N => rnd.block_row = block_data[1]

\* C14: round t reads the feed record at index t mod N, so that over a feed
\* shorter than T round N reads the record round 0 read, and no step of the
\* program changes the feed.
Thm_C14_CyclicFeedUnmodified ==
    [](RoundReadsCyclicRecord) /\ [][block_data' = block_data]_vars

\* Round N of a run over a feed of two different records has read the first
\* record again.
Wit_C14_FeedWrappedAround ==
    /\ RunSetUp
    /\ Len(block_data) = 2
    /\ block_data[1] # block_data[2]
    /\ t = Len(block_data) + 1
    /\ rnd.block_row = block_data[1]

\* The fee the feed's record pays by itself: fee rate times observed size.
RawFee(row) == (row.avg_sat_per_vb * row.total_vbytes) \div 1000

\* The subsidy counted in the revenue of a round.
CountedSubsidy(row) == IF cfg.include_block_reward THEN row.block_subsidy_sat ELSE 0

\* C15: in a run of archetype F, which has the base fee, the fee floor and the
\* adaptive capacity disabled and a fee floor of 0, the effective fee of every
\* round is the fee rate times the observed size of the round's record, and
\* this is the fee in the round's revenue X_t.
Thm_C15_ArchetypeFRawFee ==
    (RunSetUp /\ args.policy_group = "F_NONE") =>
        /\ ~args.enable_basefee /\ ~args.enable_feefloor /\ ~args.enable_adaptive
        /\ args.fee_floor_sat = 0
        /\ t > 0 =>
              /\ rnd.F_eff = RawFee(rnd.block_row)
              /\ rnd.X_t = CountedSubsidy(rnd.block_row) + RawFee(rnd.block_row)
                              + rnd.block_row.mev_sat

\* A round of archetype F whose raw fee is below both the fee the base fee
\* would ask and a fee floor of the grid.
Wit_C15_RawFeeBelowBaseAndFloor ==
    /\ RunSetUp
    /\ args.policy_group = "F_NONE"
    /\ t > 0
    /\ rnd.F_eff = RawFee(rnd.block_row)
    /\ (basefee * rnd.block_row.total_vbytes) \div 1000 > rnd.F_eff
    /\ \E k \in DOMAIN cfg.fee_floor_grid : cfg.fee_floor_grid[k] > rnd.F_eff

\* Scenario 2: a run of two miners with shares 0.6 and 0.4 and the same costs,
\* with the base fee, the fee floor and the adaptive capacity disabled, over a
\* feed whose every record has a size equal to the capacity.
Scenario2 ==
    /\ RunSetUp
    /\ shares = <<6, 4>>
    /\ costs[1] = costs[2]
    /\ \A d \in {block_data[k].date : k \in DOMAIN block_data} :
          ResolvedCost(1, d) = ResolvedCost(2, d)
    /\ ~args.enable_basefee /\ ~args.enable_feefloor /\ ~args.enable_adaptive
    /\ \A k \in DOMAIN block_data : block_data[k].total_vbytes = cfg.B_min_vB

\* G_norm / U_star, as the product the code forms and as the quotient.
GNormOverTarget == (args.G_norm * ((US * CS) \div cfg.U_star)) \div CS
GNormDividedByTarget == (args.G_norm * US) \div cfg.U_star

\* C16: in every round of Scenario 2 the utilization is 1.0 and the deviation
\* incentive G_t is G_norm / U_star (the capacity stays at the size of the
\* records).
Thm_C16_Scenario2FullUtilization ==
    (Scenario2 /\ t > 0) =>
        /\ Bt_vB = cfg.B_min_vB
        /\ rnd.U_t = US
        /\ rnd.G_t = GNormOverTarget
        /\ rnd.G_t - GNormDividedByTarget \in {-1, 0, 1}

\* Scenario 2 has run all its rounds, more than one, with a positive incentive
\* above G_norm.
Wit_C16_Scenario2Finalized ==
    /\ Scenario2
    /\ state = "FINALIZED"
    /\ t >= 2
    /\ args.G_norm > 0
    /\ rnd.U_t = US
    /\ rnd.G_t > args.G_norm

\* C17: with a latency penalty w >= 0 and a non-negative arrival rate, the
\* orphan probability of deviating is at least the honest orphan probability
\* in every round.
Thm_C17_DeviationOrphansNoLess ==
    (RunSetUp /\ t > 0 /\ cfg.w_seconds >= 0 /\ cfg.lambda_block_rate >= 0) =>
        rnd.rho_dev >= rnd.rho_honest

\* A round with a positive penalty in which deviating is strictly more likely
\* to be orphaned, and the honest orphan probability is itself positive.
Wit_C17_PenaltyRaisesOrphanRate ==
    /\ RunSetUp
    /\ t > 0
    /\ cfg.w_seconds > 0
    /\ rnd.rho_honest > 0
    /\ rnd.rho_dev > rnd.rho_honest

\* The concatenation of a sequence of sequences.
RECURSIVE Concat(_)
Concat(ss) == IF ss = <<>> THEN <<>> ELSE Head(ss) \o Concat(Tail(ss))

\* The combinations of the sweep in the order of its loops: every G_ratio
\* with every archetype, and with every fee-floor value of the grid when the
\* archetype has the fee floor enabled and with the one value 0 when not.
SweepPlan ==
    Concat([g \in DOMAIN cfg.G_ratio_grid |->
        Concat([p \in DOMAIN policy_groups |->
            LET floors == IF policy_groups[p].name \in {"A_BF_FF_AD", "C_BF_FF", "E_FF_AD"}
                          THEN cfg.fee_floor_grid ELSE <<0>>
            IN  [f \in DOMAIN floors |->
                    [policy_group |-> policy_groups[p].name,
                     G_ratio |-> cfg.G_ratio_grid[g],
                     fee_floor_sat |-> floors[f]]]])])

\* Row k of the result rows is the row of combination k of the plan, with the
\* G_norm of its G_ratio.
RowOfCombination(k) ==
    LET combination == SweepPlan[k]
    IN  /\ rows[k].policy_group = combination.policy_group
        /\ rows[k].G_ratio = combination.G_ratio
        /\ rows[k].fee_floor_sat = combination.fee_floor_sat
        /\ rows[k].G_norm = GNorm(combination.G_ratio, block_data)

\* The newest row is the row of its combination, every finished run has one
\* row, and the finished sweep has written
\* |G_ratio_grid| * (3 * |fee_floor_grid| + 3) rows.
SweepRowsCounted ==
    ({"G_ratio_grid", "fee_floor_grid"} \subseteq DOMAIN cfg) =>
        /\ rows # <<>> => RowOfCombination(Len(rows))
        /\ state \in {"FINALIZED", "DONE"} => run_count = Len(rows)
        /\ state = "DONE" =>
              /\ results_csv = rows
              /\ Len(results_csv)
                    = Len(cfg.G_ratio_grid) * (3 * Len(cfg.fee_floor_grid) + 3)

\* A step leaves the rows alone or appends one row to them.
RowsAppendOnly ==
    \/ rows' = rows
    \/ /\ Len(rows') = Len(rows) + 1
       /\ SubSeq(rows', 1, Len(rows)) = rows

\* C18: the sweep runs every combination exactly once: each run appends one
\* row, the row of the next combination of the plan with the archetype name,
\* G_ratio, G_norm and fee-floor value of the run, and the finished sweep has
\* written |G_ratio_grid| * (3 * |fee_floor_grid| + 3) rows.
Thm_C18_OneRowPerCombination ==
    [](SweepRowsCounted) /\ [][RowsAppendOnly]_vars

\* A sweep over one G_ratio and two fee-floor values has finished with its
\* nine rows, the last of them of archetype F with floor 0.
Wit_C18_TwoFloorSweepDone ==
    /\ state = "DONE"
    /\ Len(cfg.G_ratio_grid) = 1
    /\ Len(cfg.fee_floor_grid) = 2
    /\ cfg.T > 0
    /\ Len(results_csv) = 9
    /\ results_csv[9].policy_group = "F_NONE"
    /\ results_csv[9].fee_floor_sat = 0
    /\ results_csv[2].fee_floor_sat = 5000

\* The revenue X_t = R_t + F_t + M_t of a record of the feed without any
\* policy: the subsidy when it is counted, the fee rate times the size, and
\* the auxiliary revenue.
RecordRevenue(row) == CountedSubsidy(row) + RawFee(row) + row.mev_sat

\* The mean of X_t over the records of the feed.
MeanRevenue(feed) ==
    SumSeq([k \in DOMAIN feed |-> RecordRevenue(feed[k])]) \div Len(feed)

\* C19: the G_norm of every run is its G_ratio times the mean over the feed
\* of X_t = R_t + F_t + M_t, with R_t = 0 when the subsidy is excluded.
Orig_C19_GNormFromMeanRevenue ==
    RunSetUp => args.G_norm = (args.G_ratio * MeanRevenue(block_data)) \div GRS

\* A step that runs a round measures the utilization against the capacity
\* the round started with, and hands that one utilization to the capacity
\* update, to the base-fee update and to the congestion scaling of G_t.
RoundUsesStartCapacity ==
    (state = "RUNNING" /\ t' = t + 1) =>
        LET vB_t == rnd'.block_row.total_vbytes
            U_t == Min(US, (vB_t * US) \div Bt_vB)
        IN  /\ rnd'.U_t = U_t
            /\ Bt_vB' = adaptive_B(Bt_vB, U_t)
            /\ basefee' = basefee_update(basefee, U_t)
            /\ rnd'.G_t = (args.G_norm * ((U_t * CS) \div cfg.U_star)) \div CS

\* C20: within a round the utilization is computed first, against the
\* start-of-round capacity, then the capacity is updated, then the base fee;
\* the base-fee update and G_t use the utilization computed first, not one
\* recomputed against the updated capacity.
Thm_C20_UtilizationBeforeUpdates ==
    [][RoundUsesStartCapacity]_vars

\* The first round of a run with both controllers enabled has changed the
\* capacity, and the utilization against the new capacity would have been
\* another one and would have given another base fee.
Wit_C20_RemeasuringWouldDiffer ==
    /\ RunSetUp
    /\ t = 1
    /\ args.enable_adaptive /\ args.enable_basefee
    /\ Bt_vB # cfg.B_min_vB
    /\ LET vB_t == rnd.block_row.total_vbytes
       IN  /\ rnd.U_t = Utilization(vB_t, cfg.B_min_vB)
           /\ rnd.U_t # Utilization(vB_t, Bt_vB)
           /\ basefee = basefee_update(cfg.basefee0, rnd.U_t)
           /\ basefee # basefee_update(cfg.basefee0, Utilization(vB_t, Bt_vB))

\* A run whose inputs passed the checks of run_once has been started.
RunPassedValidation ==
    run_count > 0 /\ error \notin {"cost_table", "btc_usd"}

\* No per-miner discounted value has been computed.
NoDiscountedValue ==
    \A i \in DOMAIN Vi : Vi[i] = [Vi_honest |-> 0, Vi_dev |-> 0]

\* C21: a run that passed input validation does not end before its T rounds:
\* it has completed t <= T rounds in the order 0..t-1, each with one decision
\* record per miner; the discounted values are not computed while rounds
\* remain; and when the run is finalized exactly T rounds have run and the
\* controller state and the histories are those the last round left.
Orig_C21_ValidatedRunExecutesTRounds ==
    RunPassedValidation =>
        /\ error = "none"
        /\ t <= cfg.T
        /\ \A i \in Miners :
              /\ Len(history[i]) = t
              /\ \A k \in 1..t : history[i][k].block_idx = k - 1
        /\ state = "RUNNING" => NoDiscountedValue
        /\ state \in {"FINALIZED", "DONE"} =>
              /\ t = cfg.T
              /\ t > 0 => (basefee = rnd.basefee /\ Bt_vB = rnd.Bt_vB
                           /\ rnd.block_idx = cfg.T - 1)

\* The charge of a base fee for the observed size of a record.
BaseFeeCharge(bf, row) == (bf * row.total_vbytes) \div 1000

\* C22: in every round F_raw is the fee rate times the observed size; the
\* pre-floor fee is max(F_raw, basefee * observed size) with the base fee as
\* it is after the round's base-fee update when the base fee is enabled, and
\* F_raw otherwise; the final fee is max(pre-floor fee, floor value) when the
\* fee floor is enabled and the pre-floor fee otherwise; the final fee is the
\* fee in X_t.
Thm_C22_FeeFromRawBaseAndFloor ==
    (RunSetUp /\ t > 0) =>
        LET row == rnd.block_row
        IN  /\ rnd.F_raw = RawFee(row)
            /\ rnd.F = IF args.enable_basefee
                       THEN Max(rnd.F_raw, BaseFeeCharge(basefee, row))
                       ELSE rnd.F_raw
            /\ rnd.F_eff = IF args.enable_feefloor
                           THEN Max(rnd.F, args.fee_floor_sat)
                           ELSE rnd.F
            /\ rnd.X_t = CountedSubsidy(row) + rnd.F_eff + row.mev_sat

\* The first round of a run with base fee and fee floor enabled has changed
\* the base fee, and the charge of the new base fee, which is another one
\* than the charge of the old, exceeds the raw fee and the floor.
Wit_C22_UpdatedBaseFeeSetsFee ==
    /\ RunSetUp
    /\ t = 1
    /\ args.enable_basefee /\ args.enable_feefloor
    /\ args.fee_floor_sat > 0
    /\ basefee # cfg.basefee0
    /\ rnd.F_raw > 0
    /\ rnd.F = BaseFeeCharge(basefee, rnd.block_row)
    /\ rnd.F > rnd.F_raw
    /\ rnd.F # BaseFeeCharge(cfg.basefee0, rnd.block_row)
    /\ rnd.F_eff = rnd.F

\* A round with the fee floor enabled whose pre-floor fee is below the floor.
Wit_C22_FloorSetsFee ==
    /\ RunSetUp
    /\ t > 0
    /\ args.enable_feefloor
    /\ rnd.F < args.fee_floor_sat
    /\ rnd.F_eff = args.fee_floor_sat

\* The capacity after the adaptive update of a capacity B at utilization U_t:
\* grown by the step and capped at B_max above the target, shrunk by the step
\* and floored at B_min below it, unchanged at it.
SteppedCapacity(B, U_t) ==
    IF U_t > cfg.U_star
    THEN Min(cfg.B_max_vB, ((100 + cfg.delta_step) * B) \div 100)
    ELSE IF U_t < cfg.U_star
    THEN Max(cfg.B_min_vB, ((100 - cfg.delta_step) * B) \div 100)
    ELSE B

\* A step of a run with the adaptive capacity enabled: a round applies the
\* update once, to the capacity and the utilization it started with, and no
\* other step of the run changes the capacity.
CapacitySteppedOncePerRound ==
    (RunSetUp /\ args.enable_adaptive /\ run_count' = run_count) =>
        IF t' = t + 1
        THEN Bt_vB' = SteppedCapacity(Bt_vB,
                          Min(US, (rnd'.block_row.total_vbytes * US) \div Bt_vB))
        ELSE Bt_vB' = Bt_vB

\* C23: the enabled adaptive-capacity update sets the capacity to
\* min(B_max, (1 + step) * capacity) when U_t > U*, to
\* max(B_min, (1 - step) * capacity) when U_t < U*, and leaves it unchanged
\* when U_t = U*, and it is applied exactly once per round.
Thm_C23_AdaptiveStepOncePerRound ==
    [][CapacitySteppedOncePerRound]_vars

\* A round of a run with the adaptive capacity enabled that was exactly at
\* the target utilization and has left the capacity, which a growing step
\* would have changed, as it was.
Wit_C23_UnchangedAtTarget ==
    /\ RunSetUp
    /\ args.enable_adaptive
    /\ t >= 1
    /\ rnd.U_t = cfg.U_star
    /\ rnd.block_row.total_vbytes * US = cfg.U_star * Bt_vB
    /\ Min(cfg.B_max_vB, ((100 + cfg.delta_step) * Bt_vB) \div 100) > Bt_vB

\* C24: a disabled controller component never changes its state variable:
\* in a run with the base fee disabled the base fee is basefee0 after every
\* round, and in a run with the adaptive capacity disabled the capacity is
\* its initial value B_min after every round.
Thm_C24_DisabledComponentFrozen ==
    RunSetUp =>
        /\ ~args.enable_basefee =>
              /\ basefee = cfg.basefee0
              /\ t > 0 => rnd.basefee = cfg.basefee0
        /\ ~args.enable_adaptive =>
              /\ Bt_vB = cfg.B_min_vB
              /\ t > 0 => rnd.Bt_vB = cfg.B_min_vB

\* A run with both components disabled has completed two rounds, the last
\* above the target utilization, where the enabled updates would have raised
\* a positive base fee below its cap and a capacity below its maximum.
Wit_C24_DisabledAboveTarget ==
    /\ RunSetUp
    /\ ~args.enable_basefee /\ ~args.enable_adaptive
    /\ t >= 2
    /\ rnd.U_t > cfg.U_star
    /\ cfg.alpha > 0 /\ cfg.delta_step > 0
    /\ basefee > 0 /\ basefee < BASEFEE_CAP
    /\ Bt_vB < cfg.B_max_vB
    /\ basefee = cfg.basefee0
    /\ Bt_vB = cfg.B_min_vB

\* A finalized run without realized block reports beta_bar = 0 and
\* stable_bft = true, in its result and in its row.
NoRealizedBlockReport ==
    (state = "FINALIZED" /\ actual_blocks_count = 0) =>
        /\ error = "none"
        /\ result.beta_bar.num = 0
        /\ result.stable_bft
        /\ rows[Len(rows)].beta_bar.num = 0
        /\ rows[Len(rows)].stable_bft

\* The step after the last round of a run without realized block finalizes
\* the run.
NoRealizedBlockFinalizes ==
    (state = "RUNNING" /\ t = cfg.T /\ actual_blocks_count = 0) =>
        (state' = "FINALIZED" /\ error' = "none")

RoundFavoursDeviation ==
    (QS - rnd.rho_dev) * (rnd.X_t + rnd.G_t) > (QS - rnd.rho_honest) * rnd.X_t

MarginAboveFloor == (rnd.rho_dev - rnd.rho_honest) * rnd.X_t >= EPS

\* The rounds of the run whose margin D_t is at least 1.
RoundsAtOrAboveOne == {k \in DOMAIN dt_list : dt_list[k].num >= dt_list[k].den}

Thm_C28_BlockCountersAgree ==
    RunSetUp =>
        /\ total_honest_blocks + total_dev_blocks = actual_blocks_count
        /\ deviates = total_dev_blocks
        /\ actual_blocks_count <= t
        /\ total_honest_blocks >= 0 /\ total_dev_blocks >= 0

\* A finalized run with a realized honest block and a realized deviation
\* block.
Wit_C28_HonestAndDeviatingBlocks ==
    /\ state = "FINALIZED"
    /\ total_honest_blocks > 0
    /\ total_dev_blocks > 0
    /\ deviates = total_dev_blocks
    /\ total_honest_blocks + total_dev_blocks = actual_blocks_count

\* A step within a run keeps a base fee of 0 at 0.
ZeroBaseFeeStays ==
    (run_count > 0 /\ run_count' = run_count /\ basefee = 0) => basefee' = 0

\* After a round that leaves the base fee at 0 the pre-floor fee is the raw
\* fee.
ZeroBaseFeeChargesNothing ==
    (RunSetUp /\ t > 0 /\ basefee = 0) => rnd.F = rnd.F_raw

\* C29: zero is an absorbing value of the base fee: once the base fee of a
\* run is 0, at the start or after some round, it is 0 after every later
\* round whatever the utilization, and the base-fee policy does not raise the
\* fee above the raw fee.
Thm_C29_ZeroBaseFeeAbsorbing ==
    [](ZeroBaseFeeChargesNothing) /\ [][ZeroBaseFeeStays]_vars

\* A run with the base fee enabled and positive at the start, whose first
\* round took it to 0 and whose second round, above the target utilization,
\* has left it at 0.
Wit_C29_StaysZeroAboveTarget ==
    /\ RunSetUp
    /\ args.enable_basefee
    /\ cfg.basefee0 > 0
    /\ t = 2
    /\ basefee_update(cfg.basefee0,
                      Utilization(block_data[1].total_vbytes, cfg.B_min_vB)) = 0
    /\ rnd.U_t > cfg.U_star
    /\ basefee = 0
    /\ rnd.F = rnd.F_raw

\* The delay in milliseconds of a block of the capacity B.
DelayOfCapacity(B) == cfg.base_delay_ms + (cfg.kappa_ms_per_MB * B) \div 1000

\* C30: the orphan probabilities of a round are those of the capacity after
\* the round's adaptive update and of the fixed delay parameters, whatever
\* the size of the round's block; with the adaptive capacity disabled they are
\* those of the capacity B_min in every round; and the run reports the
\* probabilities of its last round.
Thm_C30_RhoOfUpdatedCapacity ==
    /\ (RunSetUp /\ t > 0) =>
          /\ rnd.rho_honest = Rho(DelayOfCapacity(Bt_vB))
          /\ rnd.rho_dev = Rho(DelayOfCapacity(Bt_vB) + cfg.w_seconds)
          /\ ~args.enable_adaptive =>
                /\ rnd.rho_honest = Rho(DelayOfCapacity(cfg.B_min_vB))
                /\ rnd.rho_dev = Rho(DelayOfCapacity(cfg.B_min_vB) + cfg.w_seconds)
    /\ (state = "FINALIZED" /\ t > 0) =>
          /\ result.rho_honest = rnd.rho_honest
          /\ result.rho_dev = rnd.rho_dev

\* A finalized run of one round with the adaptive capacity enabled: the round
\* has changed the capacity, and the reported probabilities are those of the
\* new capacity and differ from those of the capacity the round started with.
Wit_C30_RhoFollowsNewCapacity ==
    /\ state = "FINALIZED"
    /\ t = 1
    /\ args.enable_adaptive
    /\ Bt_vB # cfg.B_min_vB
    /\ result.rho_honest = Rho(DelayOfCapacity(Bt_vB))
    /\ result.rho_honest # Rho(DelayOfCapacity(cfg.B_min_vB))
    /\ result.rho_dev # Rho(DelayOfCapacity(cfg.B_min_vB) + cfg.w_seconds)

=============================================================================
